---- MODULE Spec2Model ----
(***************************************************************************)
(* ManageTeamVault (src/src/index.js): a Vault client that caches a token, *)
(* renews it through an auth strategy when it is within the renewal cliff  *)
(* of its expiry, and proxies authenticated HTTP requests.                 *)
(*                                                                         *)
(* The client runs on one JavaScript thread: every action below is the     *)
(* code that runs between two suspension points (file reads, HTTP calls).  *)
(* Callers (Procs) are concurrent tasks using one client instance. An      *)
(* `await` of an already settled value (the memoized agent) performs no    *)
(* I/O and is folded into the step that follows it.                        *)
(*                                                                         *)
(* Time: Date.now() counts milliseconds; 31 days in milliseconds does not  *)
(* fit TLC's 32-bit integers, so the clock counts ticks of 100 ms and      *)
(* every duration of the code is converted to ticks.                       *)
(***************************************************************************)
EXTENDS Integers, FiniteSets, Sequences, TLC

\* ---------------------------------------------------------------- bounds
\* Number of clock advances a behaviour may contain.
MaxTicks == 1

\* Number of getToken()/request() calls a behaviour may contain.
MaxCalls == 2

\* Date.now() at construction, in ticks.
StartTime == 1000

\* Concurrent callers of the one client instance.
Procs == {"a", "b"}

\* ------------------------------------------------------------- constants
\* Clock ticks per second: the code's `* 1000` (ms per second) at 100 ms/tick.
TicksPerSecond == 10

\* index.js:5   const tokenRenewalCliff = 30 * 1000;
tokenRenewalCliff == 30 * TicksPerSecond

\* index.js:122 Date.now() + 31 * 24 * 60 * 60 * 1000
StaticTokenHorizon == 31 * 24 * 60 * 60 * TicksPerSecond

\* Mutant: the lease (seconds) is added to the clock without conversion.
LeaseToTicks_Unconverted(lease_duration) == lease_duration

\* index.js:70  response.data.auth.lease_duration * 1000
LeaseToTicks(lease_duration) == lease_duration * TicksPerSecond

\* --------------------------------------------------------------- inputs
\* client_token values of login responses; "" is a missing/empty client_token.
ClientTokens == {"tok-1", "tok-2"}

\* lease_duration (seconds) that comes with each client_token: exactly the
\* cliff, and one second more.
LeaseOf == [t \in ClientTokens |-> IF t = "tok-1" THEN 30 ELSE 31]

\* A login exchange ends in a transport failure (unreachable, non-2xx), or in
\* a 2xx response that either lacks auth.client_token or carries one (two
\* responses that differ in both the token and the lease).
LoginResponses ==
    {[status |-> "error", client_token |-> "", lease_duration |-> 0]}
    \cup {[status |-> "ok", client_token |-> "", lease_duration |-> 30]}
    \cup {[status |-> "ok", client_token |-> t, lease_duration |-> LeaseOf[t]] :
            t \in ClientTokens}

\* Amounts (ticks) by which the clock advances between two steps.
TickSteps == {tokenRenewalCliff, StaticTokenHorizon}

\* config.token values: none (defaults.getToken() with VAULT_TOKEN unset) or a static token.
StaticTokens == {"", "t-123"}

\* A value that is absent (undefined).
NoHeader == "<absent>"

\* Headers are maps from header names to values. params.headers of a request:
\* none, a header of another name, or that header and an X-Vault-Token.
NoHeaders == [k \in {} |-> ""]
CallerHeaders ==
    {NoHeaders,
     ("Accept" :> "application/json"),
     ("X-Vault-Token" :> "caller-tok" @@ "Accept" :> "application/json")}

\* Object.assign(target, source): the keys of both, source's values first.
ObjectAssign(target, source) ==
    [k \in DOMAIN target \cup DOMAIN source |->
        IF k \in DOMAIN source THEN source[k] ELSE target[k]]

\* config.authMethod: the built-in strategy, or a name that is not registered.
AuthMethodNames == {"kubernetes", "ldap"}

\* config.baseUrl: empty, or a host with a path.
BaseUrls == {"", "vault.internal:8200/v1"}

\* The constructor's arguments and, for sslCertPath, whether that file
\* exists. With ignoreSslCertCheck set the file is of no consequence, and
\* it is taken to be missing then.
Configs ==
    {cfg \in [authMethod : AuthMethodNames, baseUrl : BaseUrls,
              sslCertExists : BOOLEAN, ignoreSslCertCheck : BOOLEAN,
              errorHandler : {"throw", "return"}, token : StaticTokens] :
        cfg.ignoreSslCertCheck => ~cfg.sslCertExists}

\* Value a non-throwing error-handling policy returns.
PolicyValue == "policy-result"

\* Body of a successful data response.
ResponseData == "response-data"

VARIABLES
    now,                \* Date.now(), in ticks
    ticks,              \* clock advances so far
    calls,              \* getToken()/request() calls started so far
    instance,           \* what `new ManageTeamVault(config)` ended in
    authMethod,         \* config.authMethod
    baseUrl,            \* config.baseUrl
    sslCertExists,      \* existsSync(sslCertPath) at construction
    errorPolicy,        \* this.errorHandler: "throw" (default) or "return"
    ignoreSslCertCheck, \* this.ignoreSslCertCheck
    staticToken,        \* config.token as given to the constructor
    token,              \* this.token
    tokenExpiresAt,     \* this.tokenExpiresAt, in ticks
    httpsAgent,         \* this.httpsAgent: 0 is null, n > 0 the n-th Agent built
    agentsCreated,      \* number of `new Agent(config)` evaluated
    renewals,           \* number of login responses that updated the token state
    call                \* per caller: position in request()/getToken() and its locals

vars == <<now, ticks, calls, instance, authMethod, baseUrl, sslCertExists,
          errorPolicy, ignoreSslCertCheck, staticToken,
          token, tokenExpiresAt, httpsAgent, agentsCreated, renewals, call>>

config == <<instance, authMethod, baseUrl, sslCertExists,
            errorPolicy, ignoreSslCertCheck, staticToken>>

\* ------------------------------------------------------------ call record
Pending == [kind |-> "pending", val |-> "", cause |-> "none"]
Value(v) == [kind |-> "value", val |-> v, cause |-> "none"]
Raise(e, cause) == [kind |-> "raise", val |-> e, cause |-> cause]

NoCall ==
    [pc |-> "idle", op |-> "none",
     hdr |-> NoHeaders,     \* params.headers of the request (while it runs)
     n |-> 0,               \* number of calls this caller has started
     tokenBefore |-> "",    \* this.token when getToken() was called
     renewalsBefore |-> 0,  \* renewals when getToken() was called (while it runs)
     sawFile |-> "unchecked", \* what existsSync(serviceAccountTokenPath) returned
     how |-> "none",        \* how getToken() ended: hit, login, stale, raise
     obtained |-> NoHeader, \* the value getToken() returned
     fresh |-> FALSE,       \* expiry - now > cliff when getToken() returned
     authCalls |-> 0,       \* invocations of this.auth() by this call
     posts |-> 0,           \* login POSTs issued by this call
     handlerCalls |-> 0,    \* invocations of this.errorHandler by this call
     handlerErr |-> "none", \* the error last handed to this.errorHandler
     invokedAt |-> 0,       \* Date.now() when this.auth() was invoked (while it runs)
     lease |-> 0,           \* lease_duration of the processed login response
     sent |-> NoHeaders,    \* headers of the data request in flight
     dataCalls |-> 0,       \* data HTTP calls issued by this call
     dataOutcome |-> "none", \* how the data HTTP call settled: ok, failed
     result |-> Pending]

\* -------------------------------------------------------------- helpers
\* Mutant: the default policy returns like a substituted one.
errorHandler_Swallows(policy, err) ==
    [kind |-> "value", val |-> PolicyValue, cause |-> err]

\* index.js:14-16 default policy throws; a substituted policy returns a value.
errorHandler(policy, err) ==
    IF policy = "throw" THEN Raise("ManageTeamVault module error", err)
    ELSE [kind |-> "value", val |-> PolicyValue, cause |-> err]

\* Mutant: the comparison of index.js:166 with its operands exchanged.
CacheValid_Swapped(expiresAt, t) == t - tokenRenewalCliff > expiresAt

\* Mutant: the expiry is compared with the clock without the renewal cliff.
CacheValid_NoCliff(expiresAt, t) == expiresAt > t

\* index.js:166  this.tokenExpiresAt - tokenRenewalCliff > Date.now()
CacheValid(expiresAt, t) == expiresAt - tokenRenewalCliff > t

\* index.js:121  this.token = token || "";
ConstructorToken(cfgToken) == cfgToken

\* Mutant: a static token is stored without an expiry.
ConstructorExpiry_Unseeded(cfgToken, t) == 0

\* Mutant: the expiry is seeded whether or not a token was given.
ConstructorExpiry_Always(cfgToken, t) == t + StaticTokenHorizon

\* index.js:122  this.tokenExpiresAt = token ? Date.now() + 31 days : 0;
ConstructorExpiry(cfgToken, t) ==
    IF cfgToken # "" THEN t + StaticTokenHorizon ELSE 0

\* Mutant: the token is assigned over the caller's headers.
MergeHeaders_TokenLast(tok, hdr) == ObjectAssign(hdr, ("X-Vault-Token" :> tok))

\* index.js:142-144 Object.assign({"X-Vault-Token": tok}, params.headers || {})
MergeHeaders(tok, hdr) == ObjectAssign(("X-Vault-Token" :> tok), hdr)

\* Mutant: the shape of the login response is not checked.
Unrecognized_Unchecked(resp) == FALSE

\* index.js:64  !response || !response.data || !response.data.auth || !...client_token
Unrecognized(resp) == resp.client_token = ""

\* index.js:24 the registered auth methods.
authMethods == {"kubernetes"}

\* Mutant: the base URL is not validated.
Constructor_AnyBaseUrl(cfg) ==
    IF cfg.authMethod \notin authMethods
    THEN [status |-> "raise", error |-> "Vault: Unsupported auth method", handlerCalls |-> 0]
    ELSE IF ~cfg.sslCertExists /\ ~cfg.ignoreSslCertCheck
    THEN [status |-> "raise", error |-> "sslCertPath: file not found", handlerCalls |-> 0]
    ELSE [status |-> "ok", error |-> "none", handlerCalls |-> 0]

\* index.js:100-110 the constructor's validation: each failure is thrown by
\* the constructor itself, and this.errorHandler is not yet assigned.
Constructor(cfg) ==
    IF cfg.authMethod \notin authMethods
    THEN [status |-> "raise", error |-> "Vault: Unsupported auth method", handlerCalls |-> 0]
    ELSE IF ~cfg.sslCertExists /\ ~cfg.ignoreSslCertCheck
    THEN [status |-> "raise", error |-> "sslCertPath: file not found", handlerCalls |-> 0]
    ELSE IF cfg.baseUrl = ""
    THEN [status |-> "raise", error |-> "Invalid baseUrl constructor parameter", handlerCalls |-> 0]
    ELSE [status |-> "ok", error |-> "none", handlerCalls |-> 0]

\* `new ManageTeamVault(cfg)`: when the constructor throws there is no
\* instance, and the fields of index.js:116-122 are never assigned.
Init ==
    /\ now = StartTime
    /\ ticks = 0
    /\ calls = 0
    /\ \E cfg \in Configs :
          /\ instance = Constructor(cfg)
          /\ authMethod = cfg.authMethod
          /\ baseUrl = cfg.baseUrl
          /\ sslCertExists = cfg.sslCertExists
          /\ errorPolicy = cfg.errorHandler
          /\ ignoreSslCertCheck = cfg.ignoreSslCertCheck
          /\ staticToken = cfg.token
    /\ token = IF instance.status = "ok" THEN ConstructorToken(staticToken) ELSE ""
    /\ tokenExpiresAt =
          IF instance.status = "ok" THEN ConstructorExpiry(staticToken, now) ELSE 0
    /\ httpsAgent = 0
    /\ agentsCreated = 0
    /\ renewals = 0
    /\ call = [p \in Procs |-> NoCall]

\* The clock advances.
Tick(d) ==
    /\ ticks < MaxTicks
    /\ now' = now + d
    /\ ticks' = ticks + 1
    /\ UNCHANGED <<calls, config, token, tokenExpiresAt, httpsAgent, agentsCreated, renewals, call>>

\* index.js:169-183 getHttpsAgent(), up to its first suspension: the memoized
\* agent, or a new Agent built at once (ignoreSslCertCheck), or a suspension
\* on reading the CA file (the Agent is built when the read completes).
getHttpsAgent(agent, created, ignoreSsl) ==
    IF agent # 0 THEN [suspend |-> FALSE, agent |-> agent, created |-> created]
    ELSE IF ignoreSsl
         THEN [suspend |-> FALSE, agent |-> created + 1, created |-> created + 1]
         ELSE [suspend |-> TRUE, agent |-> agent, created |-> created]

\* getToken() returns v to its caller. A direct caller is done; request()
\* (index.js:142-147) merges v into the headers and issues the data call.
ReturnToken(c, v, how, expiresAt) ==
    LET c1 == [c EXCEPT !.how = how, !.obtained = v, !.invokedAt = 0,
                        !.renewalsBefore = 0,
                        !.fresh = (expiresAt - now > tokenRenewalCliff)]
    IN IF c.op = "getToken"
       THEN [c1 EXCEPT !.pc = "done", !.result = Value(v)]
       ELSE [c1 EXCEPT !.pc = "data", !.sent = MergeHeaders(v, c.hdr),
                       !.dataCalls = @ + 1]

\* An error leaves getToken() (and with it request(): index.js:143 is outside
\* the try block).
RaiseToken(c, r) ==
    [c EXCEPT !.pc = "done", !.how = "raise", !.invokedAt = 0,
              !.renewalsBefore = 0, !.result = r]

\* Mutant: the value the policy returns becomes the result of getToken().
AuthFailed_PolicyResult(c, err) ==
    LET h == errorHandler(errorPolicy, err)
        c1 == [c EXCEPT !.handlerCalls = @ + 1, !.handlerErr = err]
    IN IF h.kind = "raise" THEN RaiseToken(c1, h)
       ELSE ReturnToken(c1, h.val, "stale", tokenExpiresAt)

\* Mutant: the token read when getToken() was called is returned, not this.token.
AuthFailed_TokenBefore(c, err) ==
    LET h == errorHandler(errorPolicy, err)
        c1 == [c EXCEPT !.handlerCalls = @ + 1, !.handlerErr = err]
    IN IF h.kind = "raise" THEN RaiseToken(c1, h)
       ELSE ReturnToken(c1, c.tokenBefore, "stale", tokenExpiresAt)

\* index.js:55-62 and 64-67: the failure goes to this.errorHandler; if the
\* policy returns, its value is dropped and this.token is returned.
AuthFailed(c, err) ==
    LET h == errorHandler(errorPolicy, err)
        c1 == [c EXCEPT !.handlerCalls = @ + 1, !.handlerErr = err]
    IN IF h.kind = "raise" THEN RaiseToken(c1, h)
       ELSE ReturnToken(c1, token, "stale", tokenExpiresAt)

\* Mutant: the existence check of index.js:42 is left out.
CredentialFileMissing_Unchecked(saExists) == FALSE

\* index.js:42  !existsSync(serviceAccountTokenPath)
CredentialFileMissing(saExists) == ~saExists

\* index.js:166 getToken(), and index.js:112-114, 36-44 the invocation of the
\* kubernetes strategy up to its first suspension (reading the credential file).
GetTokenBody(p, c, saExists) ==
    LET c0 == [c EXCEPT !.tokenBefore = token, !.renewalsBefore = renewals]
    IN IF CacheValid(tokenExpiresAt, now)
       THEN call' = [call EXCEPT ![p] = ReturnToken(c0, token, "hit", tokenExpiresAt)]
       ELSE LET c1 == [c0 EXCEPT !.authCalls = @ + 1, !.invokedAt = now,
                                 !.sawFile = IF saExists THEN "present" ELSE "missing"]
            IN IF CredentialFileMissing(saExists)
               THEN call' = [call EXCEPT ![p] =
                        RaiseToken(c1, Raise("serviceAccountTokenPath: file not found", "none"))]
               ELSE call' = [call EXCEPT ![p] = [c1 EXCEPT !.pc = "readJwt"]]

\* A caller calls getToken() directly.
StartGetToken(p, saExists) ==
    /\ instance.status = "ok"
    /\ call[p].pc \in {"idle", "done"}
    /\ calls < MaxCalls
    /\ calls' = calls + 1
    /\ GetTokenBody(p, [NoCall EXCEPT !.op = "getToken", !.n = call[p].n + 1], saExists)
    /\ UNCHANGED <<now, ticks, config, token, tokenExpiresAt, httpsAgent, agentsCreated, renewals>>

\* index.js:135-140 request(params) up to `await this.getHttpsAgent()`.
StartRequest(p, hdr) ==
    /\ instance.status = "ok"
    /\ call[p].pc \in {"idle", "done"}
    /\ calls < MaxCalls
    /\ calls' = calls + 1
    /\ LET g == getHttpsAgent(httpsAgent, agentsCreated, ignoreSslCertCheck)
       IN /\ httpsAgent' = g.agent
          /\ agentsCreated' = g.created
          /\ call' = [call EXCEPT ![p] =
                 [NoCall EXCEPT !.op = "request", !.hdr = hdr, !.n = call[p].n + 1,
                                !.pc = IF g.suspend THEN "agentRead" ELSE "getToken"]]
    /\ UNCHANGED <<now, ticks, config, token, tokenExpiresAt, renewals>>

\* index.js:143 request() resumes with the agent and calls getToken().
RequestGetToken(p, saExists) ==
    /\ call[p].pc = "getToken"
    /\ GetTokenBody(p, call[p], saExists)
    /\ UNCHANGED <<now, ticks, calls, config, token, tokenExpiresAt, httpsAgent, agentsCreated, renewals>>

\* index.js:49 the read of the credential file completes; then index.js:52
\* getHttpsAgent() and, with the agent at hand, index.js:48 the login POST.
ReadJwtDone(p, ok) ==
    /\ call[p].pc = "readJwt"
    /\ IF ok
       THEN LET g == getHttpsAgent(httpsAgent, agentsCreated, ignoreSslCertCheck)
            IN /\ httpsAgent' = g.agent
               /\ agentsCreated' = g.created
               /\ call' = [call EXCEPT ![p] =
                      IF g.suspend THEN [@ EXCEPT !.pc = "loginAgentRead"]
                      ELSE [@ EXCEPT !.pc = "loginPost", !.posts = @ + 1]]
       ELSE /\ call' = [call EXCEPT ![p] = AuthFailed(@, "loginFailed")]
            /\ UNCHANGED <<httpsAgent, agentsCreated>>
    /\ UNCHANGED <<now, ticks, calls, config, token, tokenExpiresAt, renewals>>

\* index.js:179-182 the read of the CA file completes: on success the Agent is
\* built and stored. A failure inside request() (index.js:139) is raised as
\* it is; inside the strategy (index.js:52) the catch of index.js:55 takes it.
AgentReadDone(p, ok) ==
    /\ call[p].pc \in {"agentRead", "loginAgentRead"}
    /\ IF ok
       THEN /\ httpsAgent' = agentsCreated + 1
            /\ agentsCreated' = agentsCreated + 1
            /\ call' = [call EXCEPT ![p] =
                   IF @.pc = "agentRead" THEN [@ EXCEPT !.pc = "getToken"]
                   ELSE [@ EXCEPT !.pc = "loginPost", !.posts = @ + 1]]
       ELSE /\ call' = [call EXCEPT ![p] =
                   IF @.pc = "agentRead"
                   THEN [@ EXCEPT !.pc = "done", !.result = Raise("ENOENT", "none")]
                   ELSE AuthFailed(@, "loginFailed")]
            /\ UNCHANGED <<httpsAgent, agentsCreated>>
    /\ UNCHANGED <<now, ticks, calls, config, token, tokenExpiresAt, renewals>>

\* Mutant: the later of the two expiry instants is kept.
StoreRenewal_KeepsLaterExpiry(this, resp, t) ==
    [token |-> resp.client_token,
     tokenExpiresAt |->
        IF this.tokenExpiresAt > t + LeaseToTicks(resp.lease_duration)
        THEN this.tokenExpiresAt
        ELSE t + LeaseToTicks(resp.lease_duration)]

\* index.js:69-70 both fields are assigned from the one response, at clock
\* value t, with nothing awaited in between.
StoreRenewal(this, resp, t) ==
    [token |-> resp.client_token,
     tokenExpiresAt |-> t + LeaseToTicks(resp.lease_duration)]

\* Mutant: the value read from this.token before the assignment is returned.
ReturnedToken_Stale(before, stored) == before.token

\* index.js:72 `return this.token`, read right after the assignments of
\* index.js:69-70.
ReturnedToken(before, stored) == stored.token

\* index.js:55-72 the login POST settles.
LoginRespond(p, resp) ==
    /\ call[p].pc = "loginPost"
    /\ IF resp.status = "error"
       THEN /\ call' = [call EXCEPT ![p] = AuthFailed(@, "loginFailed")]
            /\ UNCHANGED <<token, tokenExpiresAt, renewals>>
       ELSE IF Unrecognized(resp)
       THEN /\ call' = [call EXCEPT ![p] = AuthFailed(@, "unrecognized")]
            /\ UNCHANGED <<token, tokenExpiresAt, renewals>>
       ELSE LET this == [token |-> token, tokenExpiresAt |-> tokenExpiresAt]
                stored == StoreRenewal(this, resp, now)
            IN /\ token' = stored.token
               /\ tokenExpiresAt' = stored.tokenExpiresAt
               /\ renewals' = renewals + 1
               /\ call' = [call EXCEPT ![p] =
                      ReturnToken([@ EXCEPT !.lease = resp.lease_duration],
                                  ReturnedToken(this, stored), "login",
                                  stored.tokenExpiresAt)]
    /\ UNCHANGED <<now, ticks, calls, config, httpsAgent, agentsCreated>>

\* index.js:146-156 the data HTTP call settles.
DataRespond(p, ok) ==
    /\ call[p].pc = "data"
    /\ call' = [call EXCEPT ![p] =
           IF ok THEN [@ EXCEPT !.pc = "done", !.dataOutcome = "ok",
                               !.hdr = NoHeaders, !.sent = NoHeaders,
                               !.result = Value(ResponseData)]
           ELSE [@ EXCEPT !.pc = "done", !.handlerCalls = @ + 1,
                          !.hdr = NoHeaders, !.sent = NoHeaders,
                          !.dataOutcome = "failed",
                          !.handlerErr = "requestFailed",
                          !.result = errorHandler(errorPolicy, "requestFailed")]]
    /\ UNCHANGED <<now, ticks, calls, config, token, tokenExpiresAt, httpsAgent, agentsCreated, renewals>>

Next ==
    \/ \E d \in TickSteps : Tick(d)
    \/ \E p \in Procs, e \in BOOLEAN : StartGetToken(p, e)
    \/ \E p \in Procs, h \in CallerHeaders : StartRequest(p, h)
    \/ \E p \in Procs, e \in BOOLEAN : RequestGetToken(p, e)
    \/ \E p \in Procs, ok \in BOOLEAN : ReadJwtDone(p, ok)
    \/ \E p \in Procs, ok \in BOOLEAN : AgentReadDone(p, ok)
    \/ \E p \in Procs, r \in LoginResponses : LoginRespond(p, r)
    \/ \E p \in Procs, ok \in BOOLEAN : DataRespond(p, ok)

Spec == Init /\ [][Next]_vars

\* ================================================================ claims
\* The value of header `name` in the header map h, or NoHeader.
HeaderOf(h, name) == IF name \in DOMAIN h THEN h[name] ELSE NoHeader

\* Steps of a caller p, read off two successive states.

\* p's step evaluates the expiry check of getToken() (index.js:166).
EvaluatesGetToken(p) ==
    \/ call'[p].n # call[p].n /\ call'[p].op = "getToken"
    \/ call[p].pc = "getToken" /\ call'[p].pc # "getToken"

\* p's step processes a well-formed successful login response (index.js:69-72).
LoginSucceeds(p) ==
    call[p].pc = "loginPost" /\ call'[p].how = "login"

\* p's step is a failed read of the CA file inside getHttpsAgent()
\* (index.js:179): p was suspended on the read and no Agent results.
CaReadFails(p) ==
    /\ call[p].pc \in {"agentRead", "loginAgentRead"}
    /\ call'[p].pc # call[p].pc
    /\ agentsCreated' = agentsCreated

\* C1: when tokenExpiresAt - now exceeds the renewal cliff, getToken() returns
\* the cached token, invokes no auth strategy, issues no login call and
\* leaves token and expiry as they are.
C1_CacheHit ==
    [][\A p \in Procs :
         (EvaluatesGetToken(p) /\ tokenExpiresAt - now > 30 * TicksPerSecond)
         => /\ call'[p].how = "hit"
            /\ call'[p].obtained = token
            /\ call'[p].authCalls = 0
            /\ call'[p].posts = 0
            /\ token' = token
            /\ tokenExpiresAt' = tokenExpiresAt]_vars

\* A direct getToken() hit the cache of a token obtained by a login.
C1_Witness ==
    \E p \in Procs :
        /\ call[p].op = "getToken" /\ call[p].pc = "done" /\ call[p].how = "hit"
        /\ call[p].result = Value(token) /\ token \in ClientTokens

\* C2: when tokenExpiresAt - now is within the renewal cliff (the initial
\* expiry 0 included), the getToken() call invokes the auth strategy, and no
\* call ever invokes it, or posts a login, more than once.
C2_RenewalOnce ==
    /\ [](\A p \in Procs : call[p].authCalls <= 1 /\ call[p].posts <= call[p].authCalls)
    /\ [][\A p \in Procs :
            (EvaluatesGetToken(p) /\ tokenExpiresAt - now <= 30 * TicksPerSecond)
            => call'[p].authCalls = 1]_vars

\* A renewal was triggered for a token that has not expired yet.
C2_Witness ==
    \E p \in Procs :
        /\ call[p].pc = "readJwt" /\ call[p].authCalls = 1
        /\ tokenExpiresAt > call[p].invokedAt
        /\ tokenExpiresAt - call[p].invokedAt <= 30 * TicksPerSecond

\* C3 as stated: after a successful login the expiry is the time at which the
\* strategy was invoked plus the lease duration.
C3_ExpiryFromInvocation ==
    [][\A p \in Procs :
         LoginSucceeds(p)
         => tokenExpiresAt' = call[p].invokedAt + call'[p].lease * TicksPerSecond]_vars

\* C3 amended: after a successful login the token is the response's
\* client_token and the expiry is the time at which the response is
\* processed plus the lease duration.
C3_ExpiryFromResponse ==
    [][\A p \in Procs :
         LoginSucceeds(p)
         => /\ token' = call'[p].obtained
            /\ token' \in ClientTokens
            /\ tokenExpiresAt' = now + call'[p].lease * TicksPerSecond]_vars

\* A login succeeded after the clock had advanced since its invocation.
C3_Witness ==
    \E p \in Procs :
        /\ call[p].how = "login" /\ call[p].obtained = token
        /\ tokenExpiresAt = now + call[p].lease * TicksPerSecond
        /\ now > StartTime

\* p's step handles a failure of the kubernetes login (index.js:55-67).
AuthFails(p) ==
    /\ call[p].pc \in {"readJwt", "loginAgentRead", "loginPost"}
    /\ call'[p].handlerCalls = call[p].handlerCalls + 1

\* C4 as stated: every data call request() issues carries a token whose
\* expiry exceeded the clock by more than the cliff when getToken() returned it.
C4_AlwaysFresh ==
    \A p \in Procs : call[p].dataCalls > 0 => call[p].fresh

\* C4 amended: the token of a data call came from a cache hit, a successful
\* login or, under a policy that returns, the fallback after a failed login;
\* it was ahead of the clock by more than the cliff when it was obtained if it
\* came from a cache hit or from a login with a lease of more than 30 s.
C4_FreshUnlessFallbackOrShortLease ==
    \A p \in Procs :
        call[p].pc = "data"
        => /\ call[p].dataCalls = 1
           /\ call[p].how \in {"hit", "login", "stale"}
           /\ call[p].how = "stale" => errorPolicy = "return"
           /\ call[p].how = "hit" => call[p].fresh
           /\ call[p].how = "login" => (call[p].fresh <=> call[p].lease > 30)
           /\ HeaderOf(call[p].sent, "X-Vault-Token") \in
                {call[p].obtained, HeaderOf(call[p].hdr, "X-Vault-Token")}

\* A request was sent with the token of a login whose lease exceeds the cliff.
C4_Witness ==
    \E p \in Procs :
        /\ call[p].pc = "data" /\ call[p].how = "login" /\ call[p].lease = 31
        /\ call[p].fresh /\ HeaderOf(call[p].sent, "X-Vault-Token") = call[p].obtained

\* C5 as stated: after a failed login the result of getToken() is what the
\* error-handling policy yields, its return value or the error it raises.
C5_PolicyYieldsResult ==
    \A p \in Procs :
        (call[p].op = "getToken" /\ call[p].pc = "done" /\ call[p].handlerCalls > 0)
        => \/ errorPolicy = "throw" /\ call[p].result.kind = "raise"
           \/ errorPolicy = "return" /\ call[p].result.kind = "value"
                                     /\ call[p].result.val = PolicyValue

\* C5 amended: a failed login is handed to the policy; if the policy raises,
\* getToken() raises that error; if it returns, the returned value is dropped
\* and getToken() returns the cached token.
C5_PolicyRaisesOrCachedToken ==
    [][\A p \in Procs :
         AuthFails(p)
         => /\ call'[p].handlerCalls = 1
            /\ call'[p].handlerErr \in {"loginFailed", "unrecognized"}
            /\ IF errorPolicy = "throw"
               THEN /\ call'[p].pc = "done"
                    /\ call'[p].result.kind = "raise"
                    /\ call'[p].result.val = "ManageTeamVault module error"
                    /\ call'[p].result.cause = call'[p].handlerErr
                    /\ call'[p].dataCalls = 0
               ELSE /\ call'[p].obtained = token
                    /\ call'[p].op = "getToken" => call'[p].result = Value(token)
                    /\ call'[p].op = "request" => call'[p].result = Pending]_vars

\* A direct getToken() ended with the cached token after the policy returned.
C5_Witness ==
    \E p \in Procs :
        /\ call[p].op = "getToken" /\ call[p].pc = "done" /\ call[p].handlerCalls = 1
        /\ errorPolicy = "return" /\ call[p].result.kind = "value"
        /\ call[p].result.val # PolicyValue

\* C6 as stated: when the login fails and the policy returns, the policy was
\* invoked once and getToken() returns the token cached before the call.
C6_TokenBeforeCall ==
    \A p \in Procs :
        (call[p].how = "stale" /\ (call[p].op = "getToken" \/ call[p].pc = "data"))
        => call[p].handlerCalls = 1 /\ call[p].obtained = call[p].tokenBefore

\* C6 amended: when the login fails and the policy returns, the policy was
\* invoked once and getToken() returns the token cached when the failure is
\* handled: the token cached before the call, unless a renewal of another
\* caller succeeded since.
C6_TokenAtFailure ==
    [][\A p \in Procs :
         (AuthFails(p) /\ errorPolicy = "return")
         => /\ call'[p].how = "stale"
            /\ call'[p].handlerCalls = 1
            /\ call'[p].obtained = token
            /\ renewals = call[p].renewalsBefore => call'[p].obtained = call[p].tokenBefore
            /\ token' = token]_vars

\* A failed login returned a token that a concurrent renewal had stored.
C6_Witness ==
    \E p \in Procs :
        /\ call[p].how = "stale" /\ call[p].handlerCalls = 1
        /\ call[p].obtained \in ClientTokens
        /\ call[p].obtained # call[p].tokenBefore

\* C7: token and tokenExpiresAt change only in the step that processes a
\* well-formed successful login response.
C7_OnlyLoginMutates ==
    [][(token' # token \/ tokenExpiresAt' # tokenExpiresAt)
       => \E p \in Procs : /\ LoginSucceeds(p)
                           /\ token' \in ClientTokens
                           /\ token' = call'[p].obtained]_vars

\* A malformed login response was handled and the token state is still the
\* constructor's.
C7_Witness ==
    \E p \in Procs :
        /\ call[p].handlerErr = "unrecognized" /\ call[p].handlerCalls = 1
        /\ renewals = 0 /\ token = staticToken
        /\ tokenExpiresAt = ConstructorExpiry(staticToken, StartTime)

\* C8: a static token T is stored with an expiry of construction time plus
\* 31 days, and while now < tokenExpiresAt - cliff every getToken() returns T
\* and every request() sends T, without invoking the auth strategy.
C8_StaticTokenUsable ==
    /\ [](instance.status = "ok" /\ staticToken # "" /\ renewals = 0
          => /\ token = staticToken
             /\ tokenExpiresAt = StartTime + 31 * 24 * 60 * 60 * TicksPerSecond)
    /\ [][\A p \in Procs :
            (/\ EvaluatesGetToken(p)
             /\ staticToken # "" /\ renewals = 0
             /\ now < tokenExpiresAt - 30 * TicksPerSecond)
            => /\ call'[p].how = "hit"
               /\ call'[p].obtained = staticToken
               /\ call'[p].authCalls = 0 /\ call'[p].posts = 0
               /\ call'[p].op = "getToken" => call'[p].result = Value(staticToken)
               /\ (call'[p].op = "request"
                   /\ HeaderOf(call'[p].hdr, "X-Vault-Token") = NoHeader)
                  => /\ HeaderOf(call'[p].sent, "X-Vault-Token") = staticToken
                     /\ call'[p].dataCalls = 1]_vars

\* A request carried the static token, some time after construction.
C8_Witness ==
    \E p \in Procs :
        /\ staticToken = "t-123" /\ now > StartTime
        /\ call[p].op = "request" /\ call[p].pc = "data"
        /\ HeaderOf(call[p].sent, "X-Vault-Token") = "t-123" /\ call[p].authCalls = 0

\* C9 as stated: with a static token no getToken() or request() ever invokes
\* the auth strategy.
C9_StaticTokenNeverAuth ==
    staticToken # "" => \A p \in Procs : call[p].authCalls = 0

C11_RequestFailureRouting ==
    /\ [](\A p \in Procs :
            /\ call[p].dataOutcome = "failed"
               => /\ call[p].pc = "done"
                  /\ call[p].handlerErr = "requestFailed"
                  /\ errorPolicy = "throw"
                     => /\ call[p].result.kind = "raise"
                        /\ call[p].result.val = "ManageTeamVault module error"
                        /\ call[p].result.cause = "requestFailed"
                  /\ errorPolicy = "return"
                     => /\ call[p].result.kind = "value"
                        /\ call[p].result.val = PolicyValue
            /\ call[p].dataOutcome = "ok"
               => /\ call[p].pc = "done"
                  /\ call[p].result = Value(ResponseData)
                  /\ call[p].handlerErr # "requestFailed")
    /\ [][\A p \in Procs :
            call[p].pc = "data" /\ call'[p].pc = "done"
            => /\ call'[p].dataOutcome \in {"ok", "failed"}
               /\ call'[p].handlerCalls =
                    call[p].handlerCalls + (IF call'[p].dataOutcome = "failed" THEN 1 ELSE 0)
               /\ call'[p].dataCalls = 1]_vars

\* A data call failed under a policy that returns and request() returned the
\* policy's value.
C11_Witness ==
    \E p \in Procs :
        /\ call[p].dataOutcome = "failed" /\ errorPolicy = "return"
        /\ call[p].result.kind = "value" /\ call[p].result.val = PolicyValue

\* C12: request() issues its data call only after getToken() has returned a
\* value; if its login fails and the policy raises, request() raises that
\* error and sends no data call.
C12_FailedLoginAbortsRequest ==
    /\ [](\A p \in Procs :
            /\ call[p].dataCalls > 0
               => /\ call[p].op = "request"
                  /\ call[p].how \in {"hit", "login", "stale"}
                  /\ call[p].obtained # NoHeader
            /\ (call[p].op = "request" /\ call[p].how = "raise")
               => /\ call[p].pc = "done"
                  /\ call[p].result.kind = "raise"
                  /\ call[p].dataCalls = 0 /\ call[p].dataOutcome = "none")
    /\ [][\A p \in Procs :
            (AuthFails(p) /\ errorPolicy = "throw" /\ call[p].op = "request")
            => /\ call'[p].pc = "done"
               /\ call'[p].how = "raise"
               /\ call'[p].result =
                    Raise("ManageTeamVault module error", call'[p].handlerErr)
               /\ call'[p].dataCalls = 0]_vars

\* A request ended with the policy's error for a failed login POST, and no
\* data call was sent.
C12_Witness ==
    \E p \in Procs :
        /\ call[p].op = "request" /\ call[p].pc = "done" /\ call[p].posts = 1
        /\ call[p].result = Raise("ManageTeamVault module error", "loginFailed")
        /\ call[p].dataCalls = 0

\* C13: the outgoing data call carries the token getToken() returned under
\* X-Vault-Token, unless the caller supplied a header of that name, which is
\* then the one sent; every other caller header is sent as it was given.
C13_HeaderMerge ==
    \A p \in Procs :
        call[p].pc = "data"
        => /\ DOMAIN call[p].sent = DOMAIN call[p].hdr \cup {"X-Vault-Token"}
           /\ \A k \in DOMAIN call[p].hdr : call[p].sent[k] = call[p].hdr[k]
           /\ "X-Vault-Token" \notin DOMAIN call[p].hdr
              => call[p].sent["X-Vault-Token"] = call[p].obtained

\* A data call went out with the caller's X-Vault-Token, not the token that
\* getToken() had returned, and with the caller's other header.
C13_Witness ==
    \E p \in Procs :
        /\ call[p].pc = "data" /\ call[p].obtained \in ClientTokens
        /\ call[p].sent["X-Vault-Token"] = "caller-tok"
        /\ call[p].sent["Accept"] = "application/json"

\* C14: an unsupported auth method name, a missing CA file without
\* ignoreSslCertCheck, or an empty base URL makes the constructor raise, in the
\* order of its tests; then the policy has not been invoked, there is no
\* instance, and so no operation ever runs. Any other configuration constructs.
C14_ConstructorErrors ==
    /\ instance.handlerCalls = 0
    /\ instance.status = "raise"
       <=> \/ authMethod # "kubernetes"
           \/ ~sslCertExists /\ ~ignoreSslCertCheck
           \/ baseUrl = ""
    /\ instance.status = "raise"
       => /\ instance.error =
               IF authMethod # "kubernetes" THEN "Vault: Unsupported auth method"
               ELSE IF ~sslCertExists /\ ~ignoreSslCertCheck
                    THEN "sslCertPath: file not found"
                    ELSE "Invalid baseUrl constructor parameter"
          /\ calls = 0
          /\ \A p \in Procs : call[p] = NoCall
          /\ token = "" /\ tokenExpiresAt = 0 /\ httpsAgent = 0

\* Construction with an empty base URL and a policy that returns has raised,
\* and time has passed since.
C14_Witness ==
    /\ instance.status = "raise" /\ instance.handlerCalls = 0
    /\ baseUrl = "" /\ errorPolicy = "return" /\ authMethod = "kubernetes"
    /\ now > StartTime

\* C15: at most one Agent is ever constructed for an instance, and once
\* this.httpsAgent is set it is never assigned again.
C15_AgentCreatedOnce ==
    /\ [](agentsCreated <= 1)
    /\ [][httpsAgent # 0 => httpsAgent' = httpsAgent]_vars

\* C16: renewals are not deduplicated. A caller that evaluates the expiry test
\* within the cliff invokes the auth strategy itself, whatever the other
\* callers are doing and without touching their calls; each caller holds at
\* most its own single login, so the logins in flight are one per caller that
\* saw the stale state.
C16_NoDeduplication ==
    /\ [][\A p \in Procs :
            EvaluatesGetToken(p) /\ tokenExpiresAt - now <= tokenRenewalCliff
            => /\ call'[p].authCalls = 1 /\ call'[p].how # "hit"
               /\ \A q \in Procs \ {p} : call'[q] = call[q]]_vars
    /\ [](\A p \in Procs :
            /\ call[p].posts <= call[p].authCalls
            /\ call[p].authCalls <= 1
            /\ call[p].pc \in {"readJwt", "loginAgentRead", "loginPost"}
               => call[p].authCalls = 1
            /\ call[p].pc = "loginPost" => call[p].posts = 1)

\* Two login POSTs are in flight at once, one per caller, and no renewal has
\* completed.
C16_Witness ==
    /\ \A p \in Procs : call[p].pc = "loginPost" /\ call[p].posts = 1
    /\ renewals = 0 /\ token = ""

\* C17: the stored pair always comes from one login response: after a renewal
\* the expiry is the lease of the stored token added to a clock value that has
\* occurred. Each successful login stores its own response's pair, and nothing
\* else changes the pair, so the pair is that of the response processed last.
C17_AtomicLastWriterWins ==
    /\ [](renewals > 0
          => /\ token \in ClientTokens
             /\ tokenExpiresAt - LeaseOf[token] * TicksPerSecond >= StartTime
             /\ tokenExpiresAt - LeaseOf[token] * TicksPerSecond <= now)
    /\ [][\A p \in Procs :
            LoginSucceeds(p)
            => /\ token' = call'[p].obtained
               /\ tokenExpiresAt' = now + call'[p].lease * TicksPerSecond]_vars
    /\ [][token' # token \/ tokenExpiresAt' # tokenExpiresAt
          => \E p \in Procs : LoginSucceeds(p)]_vars

\* Two concurrent renewals have completed with different tokens and leases; the
\* stored pair is that of the shorter lease, which was processed last.
C17_Witness ==
    /\ \A p \in Procs : call[p].pc = "done" /\ call[p].how = "login"
                        /\ call[p].tokenBefore = ""
    /\ call["a"].obtained = "tok-2" /\ call["b"].obtained = "tok-1"
    /\ token = "tok-1" /\ tokenExpiresAt = now + LeaseOf["tok-1"] * TicksPerSecond

\* C18: on every path that first builds the transport handle, a failed read of
\* the CA file reaches the caller as the raw I/O error: the error-handling
\* policy is not invoked and the error is not wrapped.
C18_CaReadFailureRaw ==
    [][\A p \in Procs :
         CaReadFails(p)
         => /\ call'[p].handlerCalls = call[p].handlerCalls
            /\ call'[p].handlerErr = call[p].handlerErr
            /\ call'[p].result = Raise("ENOENT", "none")]_vars

\* C19: for a client constructed without a static token, tokenExpiresAt is 0
\* until a renewal succeeds, and from then on it is t + lease_duration * 1000 ms
\* for a clock value t that has occurred and the lease of the stored token's
\* response; it changes only when a successful login response is processed, to
\* the clock value of that step plus that response's lease.
C19_ExpiryInvariant ==
    /\ [](instance.status = "ok" /\ staticToken = ""
          => \/ renewals = 0 /\ tokenExpiresAt = 0
             \/ /\ renewals > 0 /\ token \in ClientTokens
                /\ LET t == tokenExpiresAt - LeaseOf[token] * TicksPerSecond
                   IN StartTime <= t /\ t <= now)
    /\ [][staticToken = "" /\ tokenExpiresAt' # tokenExpiresAt
          => \E p \in Procs :
                /\ LoginSucceeds(p)
                /\ call'[p].lease \in {LeaseOf[t] : t \in ClientTokens}
                /\ tokenExpiresAt' = now + call'[p].lease * TicksPerSecond]_vars

\* Without a static token, a renewal was processed at construction time and
\* the clock has advanced since: the expiry still is that of the renewal.
C19_Witness ==
    /\ instance.status = "ok" /\ staticToken = "" /\ renewals = 1
    /\ now > StartTime
    /\ tokenExpiresAt = StartTime + LeaseOf[token] * TicksPerSecond

\* C20: a caller whose own login response was well-formed gets the
\* client_token of that response: it is the value getToken() resolves to, and
\* the X-Vault-Token of the caller's data request unless the caller supplied
\* that header, whatever other renewals wrote before or write afterwards.
C20_OwnTokenReturned ==
    /\ [][\A p \in Procs :
            LoginSucceeds(p)
            => /\ call'[p].obtained = token'
               /\ call'[p].obtained \in ClientTokens
               /\ LeaseOf[call'[p].obtained] = call'[p].lease
               /\ call'[p].op = "getToken"
                  => call'[p].result = Value(call'[p].obtained)
               /\ call'[p].op = "request" /\ "X-Vault-Token" \notin DOMAIN call[p].hdr
                  => call'[p].sent["X-Vault-Token"] = call'[p].obtained]_vars
    /\ [](\A p \in Procs :
            call[p].how = "login"
            => /\ call[p].obtained \in ClientTokens
               /\ LeaseOf[call[p].obtained] = call[p].lease
               /\ call[p].op = "getToken" => call[p].result = Value(call[p].obtained))

\* Both callers renewed concurrently; the first to finish holds its own token
\* although the stored token is by now the other caller's.
C20_Witness ==
    /\ call["a"].op = "getToken" /\ call["a"].how = "login"
    /\ call["a"].tokenBefore = "" /\ call["a"].result = Value("tok-1")
    /\ call["b"].how = "login" /\ call["b"].tokenBefore = ""
    /\ call["b"].obtained = "tok-2"
    /\ token = "tok-2"

====
